---- MODULE Spec2Model ----
(***************************************************************************)
(* The GBLN <-> JavaScript bridge of rust-wasm/src/lib.rs: the Outbound    *)
(* Converter value_to_js, the Inbound Converter js_to_value and the three  *)
(* boundary functions parse, toString and toStringPretty.                  *)
(*                                                                         *)
(* Numbers.  The bridge works at the edge of the 64-bit integers and of    *)
(* the f64 mantissa, far beyond the integers TLC computes with, so a       *)
(* natural number is a little-endian sequence of bits without a leading    *)
(* (most significant) zero: <<>> is 0, <<1>> is 1, <<0,1>> is 2.  An       *)
(* integer is [neg, mag]; an f64 is [cls, neg, mag, frac] with cls one of  *)
(* "nan", "inf", "fin", mag the integer part of the magnitude and frac     *)
(* the bits after the binary point (<<1>> is .5, <<0,1>> is .25), without  *)
(* a trailing zero.                                                        *)
(***************************************************************************)
EXTENDS Integers, Sequences, FiniteSets, TLC

VARIABLES hist, hostRejects

vars == <<hist, hostRejects>>

----------------------------------------------------------------------------
(* Natural numbers as bit sequences *)

Zeros(k) == [i \in 1..k |-> 0]

Ones(k) == [i \in 1..k |-> 1]

\* 2^k
Pow2(k) == Zeros(k) \o <<1>>

RECURSIVE NatBits(_)
\* the bits of a natural number small enough for TLC
NatBits(n) == IF n = 0 THEN <<>> ELSE <<n % 2>> \o NatBits(n \div 2)

RECURSIVE BInc(_)
\* b + 1
BInc(b) ==
    IF b = <<>> THEN <<1>>
    ELSE IF b[1] = 0 THEN <<1>> \o Tail(b)
    ELSE <<0>> \o BInc(Tail(b))

\* a < b
BLess(a, b) ==
    \/ Len(a) < Len(b)
    \/ /\ Len(a) = Len(b)
       /\ \E i \in 1..Len(a) :
            /\ a[i] < b[i]
            /\ \A j \in (i + 1)..Len(a) : a[j] = b[j]

BLeq(a, b) == a = b \/ BLess(a, b)

\* the number of low-order zero bits of a non-zero b
LowZeros(b) == (CHOOSE i \in 1..Len(b) : b[i] = 1 /\ \A j \in 1..(i - 1) : b[j] = 0) - 1

\* b rounded to p significant bits, to nearest, ties to even: what an integer
\* to float conversion does with an integer of more than p bits
RoundBits(b, p) ==
    IF Len(b) <= p THEN b
    ELSE LET drop   == Len(b) - p
             top    == SubSeq(b, drop + 1, Len(b))
             guard  == b[drop]
             sticky == \E i \in 1..(drop - 1) : b[i] = 1
             up     == guard = 1 /\ (sticky \/ top[1] = 1)
         IN  Zeros(drop) \o (IF up THEN BInc(top) ELSE top)

----------------------------------------------------------------------------
(* Integers and f64 *)

Z(neg, mag) == [neg |-> neg /\ mag # <<>>, mag |-> mag]

ZNat(n) == Z(FALSE, NatBits(n))

ZNeg(n) == Z(TRUE, NatBits(n))

NaN == [cls |-> "nan", neg |-> FALSE, mag |-> <<>>, frac |-> <<>>]

Inf(neg) == [cls |-> "inf", neg |-> neg, mag |-> <<>>, frac |-> <<>>]

Fin(neg, mag, frac) == [cls |-> "fin", neg |-> neg, mag |-> mag, frac |-> frac]

IsZero(x) == x.cls = "fin" /\ x.mag = <<>> /\ x.frac = <<>>

FracBit(f, i) == IF i <= Len(f) THEN f[i] ELSE 0

FracLess(f, g) ==
    \E i \in 1..(IF Len(f) > Len(g) THEN Len(f) ELSE Len(g)) :
        /\ FracBit(f, i) < FracBit(g, i)
        /\ \A j \in 1..(i - 1) : FracBit(f, j) = FracBit(g, j)

\* |a| < |b|, neither a NaN
MagLess(a, b) ==
    IF a.cls = "inf" THEN FALSE
    ELSE IF b.cls = "inf" THEN TRUE
    ELSE BLess(a.mag, b.mag) \/ (a.mag = b.mag /\ FracLess(a.frac, b.frac))

\* the IEEE comparisons of f64: every comparison with a NaN is false, -0 = +0
FEq(a, b) ==
    /\ a.cls # "nan" /\ b.cls # "nan"
    /\ (IsZero(a) /\ IsZero(b)) \/ a = b

FLt(a, b) ==
    /\ a.cls # "nan" /\ b.cls # "nan"
    /\ ~(IsZero(a) /\ IsZero(b))
    /\ IF a.neg # b.neg THEN a.neg
       ELSE IF a.neg THEN MagLess(b, a) ELSE MagLess(a, b)

FLe(a, b) == FLt(a, b) \/ FEq(a, b)

FGe(a, b) == FLe(b, a)

\* f64::is_finite
is_finite(n) == n.cls = "fin"

\* f64::fract: self - self.trunc(); inf - inf and NaN - NaN are NaN
fract(n) == IF n.cls = "fin" THEN Fin(n.neg, <<>>, n.frac) ELSE NaN

\* `k as f64` of an integer: exact up to 53 bits, rounded to nearest even above
IntAsF64(z) == Fin(z.neg, RoundBits(z.mag, 53), <<>>)

\* f64::from of an integer of at most 32 bits (JsValue::from(i8 .. u32)): exact
F64FromInt(z) == Fin(z.neg, z.mag, <<>>)

\* the integer limits of Rust
UMax(w) == Z(FALSE, Ones(w))

IMax(w) == Z(FALSE, Ones(w - 1))

IMin(w) == Z(TRUE, Pow2(w - 1))

RECURSIVE Trim(_)
\* b without its high-order zeros
Trim(b) == IF b = <<>> \/ b[Len(b)] = 1 THEN b ELSE Trim(SubSeq(b, 1, Len(b) - 1))

\* `n as u<w>`: truncates toward zero, saturates at the limits, NaN is 0
FloatAsUnsigned(n, w) ==
    IF n.cls = "nan" \/ n.neg THEN Z(FALSE, <<>>)
    ELSE IF n.cls = "inf" \/ Len(n.mag) > w THEN UMax(w)
    ELSE Z(FALSE, n.mag)

\* a mutant: a value out of range keeps its low w - 1 bits instead of saturating
FloatAsSigned_Wrap(n, w) ==
    IF n.cls # "fin" THEN Z(FALSE, <<>>)
    ELSE IF Len(n.mag) > w - 1 /\ ~(n.neg /\ n.mag = Pow2(w - 1))
         THEN Z(n.neg, Trim(SubSeq(n.mag, 1, w - 1)))
    ELSE Z(n.neg, n.mag)

\* `n as i<w>`: truncates toward zero, saturates at the limits, NaN is 0
FloatAsSigned(n, w) ==
    IF n.cls = "nan" THEN Z(FALSE, <<>>)
    ELSE IF n.neg
         THEN IF n.cls = "inf" \/ BLess(Pow2(w - 1), n.mag) THEN IMin(w)
              ELSE Z(TRUE, n.mag)
         ELSE IF n.cls = "inf" \/ Len(n.mag) > w - 1 THEN IMax(w)
              ELSE Z(FALSE, n.mag)

----------------------------------------------------------------------------
(* gbln::Value, the Tagged Value Model, and JsValue, the Dynamic Value *)

SmallIntTags == {"I8", "I16", "I32", "U8", "U16", "U32"}

WideIntTags == {"I64", "U64"}

IntTags == SmallIntTags \cup WideIntTags

VInt(tag, z) == [tag |-> tag, v |-> z]

VF32(n) == [tag |-> "F32", f |-> n]

VF64(n) == [tag |-> "F64", f |-> n]

VStr(s) == [tag |-> "Str", s |-> s]

VBool(b) == [tag |-> "Bool", b |-> b]

VNull == [tag |-> "Null"]

\* Value::Object holds a HashMap<String, Value>: a function on its key set
VObject(map) == [tag |-> "Object", map |-> map]

VArray(vec) == [tag |-> "Array", vec |-> vec]

EmptyMap == [k \in {} |-> VNull]

\* HashMap::insert
MapInsert(map, key, val) ==
    [k \in (DOMAIN map) \cup {key} |-> IF k = key THEN val ELSE map[k]]

JsNull == [kind |-> "null"]

JsUndefined == [kind |-> "undefined"]

JsBool(b) == [kind |-> "boolean", b |-> b]

JsNumber(n) == [kind |-> "number", num |-> n]

JsStr(s) == [kind |-> "string", s |-> s]

\* a JavaScript array: its elements in index order
JsArray(items) == [kind |-> "array", items |-> items]

\* a JavaScript object: the <<key, value>> pairs Object.entries yields, in order
JsObject(entries) == [kind |-> "object", entries |-> entries]

\* values of the kinds js_to_value knows nothing of, each with its {:?} text
JsSymbol == [kind |-> "symbol", dbg |-> "JsValue(Symbol)"]

JsFunction == [kind |-> "function", dbg |-> "JsValue(Function)"]

JsBigInt == [kind |-> "bigint", dbg |-> "JsValue(BigInt)"]

Ok(x) == [ok |-> TRUE, val |-> x]

Err(e) == [ok |-> FALSE, err |-> e]

----------------------------------------------------------------------------
(* js_to_value, the Inbound Converter *)

\* a mutant: the fractional part is never looked at
IsIntegerNumber_NoFract(n) == is_finite(n)

\* n.fract() == 0.0 && n.is_finite()
IsIntegerNumber(n) == FEq(fract(n), Fin(FALSE, <<>>, <<>>)) /\ is_finite(n)

\* a mutant: the 8-bit limits are excluded from the 8-bit kinds
NarrowInteger_Strict(n) ==
    IF FGe(n, Fin(FALSE, <<>>, <<>>))
    THEN IF FLt(n, IntAsF64(UMax(8))) THEN VInt("U8", FloatAsUnsigned(n, 8))
         ELSE IF FLe(n, IntAsF64(UMax(16))) THEN VInt("U16", FloatAsUnsigned(n, 16))
         ELSE IF FLe(n, IntAsF64(UMax(32))) THEN VInt("U32", FloatAsUnsigned(n, 32))
         ELSE VInt("U64", FloatAsUnsigned(n, 64))
    ELSE IF FGe(n, IntAsF64(IMin(8))) /\ FLe(n, IntAsF64(IMax(8)))
              THEN VInt("I8", FloatAsSigned(n, 8))
         ELSE IF FGe(n, IntAsF64(IMin(16))) /\ FLe(n, IntAsF64(IMax(16)))
              THEN VInt("I16", FloatAsSigned(n, 16))
         ELSE IF FGe(n, IntAsF64(IMin(32))) /\ FLe(n, IntAsF64(IMax(32)))
              THEN VInt("I32", FloatAsSigned(n, 32))
         ELSE VInt("I64", FloatAsSigned(n, 64))

\* "Auto-select smallest type that fits": the integer branch of a number
NarrowInteger(n) ==
    IF FGe(n, Fin(FALSE, <<>>, <<>>))
    THEN IF FLe(n, IntAsF64(UMax(8))) THEN VInt("U8", FloatAsUnsigned(n, 8))
         ELSE IF FLe(n, IntAsF64(UMax(16))) THEN VInt("U16", FloatAsUnsigned(n, 16))
         ELSE IF FLe(n, IntAsF64(UMax(32))) THEN VInt("U32", FloatAsUnsigned(n, 32))
         ELSE VInt("U64", FloatAsUnsigned(n, 64))
    ELSE IF FGe(n, IntAsF64(IMin(8))) /\ FLe(n, IntAsF64(IMax(8)))
              THEN VInt("I8", FloatAsSigned(n, 8))
         ELSE IF FGe(n, IntAsF64(IMin(16))) /\ FLe(n, IntAsF64(IMax(16)))
              THEN VInt("I16", FloatAsSigned(n, 16))
         ELSE IF FGe(n, IntAsF64(IMin(32))) /\ FLe(n, IntAsF64(IMax(32)))
              THEN VInt("I32", FloatAsSigned(n, 32))
         ELSE VInt("I64", FloatAsSigned(n, 64))

\* the number branch of js_to_value
NumberToValue(n) == IF IsIntegerNumber(n) THEN NarrowInteger(n) ELSE VF64(n)

\* a mutant: an element that fails to convert is left out
PushItem_Skip(acc, r) ==
    IF ~acc.ok THEN acc ELSE IF ~r.ok THEN acc ELSE Ok(Append(acc.val, r.val))

\* one turn of the array loop, `let value = js_to_value(item)?; values.push(value);`,
\* acc the vector so far or the error that ended the loop
PushItem(acc, r) ==
    IF ~acc.ok THEN acc ELSE IF ~r.ok THEN r ELSE Ok(Append(acc.val, r.val))

\* one turn of the object loop: the key must be a string, the value must convert,
\* and then `map.insert(key, val)`
InsertEntry(acc, key, r) ==
    IF ~acc.ok THEN acc
    ELSE IF key.kind # "string" THEN Err("Object key must be string")
    ELSE IF ~r.ok THEN r
    ELSE Ok(MapInsert(acc.val, key.s, r.val))

UnsupportedType(js_val) == Err("Unsupported JavaScript type: " \o js_val.dbg)

RECURSIVE js_to_value(_), ArrayItems(_, _, _), ObjectEntries(_, _, _)

\* `for i in 0..arr.length()` over the elements of an array
ArrayItems(arr, i, acc) ==
    IF i > Len(arr) THEN acc
    ELSE ArrayItems(arr, i + 1, PushItem(acc, js_to_value(arr[i])))

\* `for i in 0..entries.length()` over Object.entries of an object
ObjectEntries(entries, i, acc) ==
    IF i > Len(entries) THEN acc
    ELSE ObjectEntries(entries, i + 1,
                       InsertEntry(acc, entries[i][1], js_to_value(entries[i][2])))

js_to_value(js_val) ==
    IF js_val.kind \in {"null", "undefined"} THEN Ok(VNull)
    ELSE IF js_val.kind = "boolean" THEN Ok(VBool(js_val.b))
    ELSE IF js_val.kind = "number" THEN Ok(NumberToValue(js_val.num))
    ELSE IF js_val.kind = "string" THEN Ok(VStr(js_val.s))
    ELSE IF js_val.kind = "array"
         THEN LET values == ArrayItems(js_val.items, 1, Ok(<<>>))
              IN  IF values.ok THEN Ok(VArray(values.val)) ELSE values
    ELSE IF js_val.kind = "object"
         THEN LET map == ObjectEntries(js_val.entries, 1, Ok(EmptyMap))
              IN  IF map.ok THEN Ok(VObject(map.val)) ELSE map
    ELSE UnsupportedType(js_val)

----------------------------------------------------------------------------
(* value_to_js, the Outbound Converter *)

\* a mutant: the 64-bit integers go through f32
WideIntToNumber_F32(z) == JsNumber(Fin(z.neg, RoundBits(z.mag, 24), <<>>))

\* JsValue::from(*n as f64) of an i64 or a u64
WideIntToNumber(z) == JsNumber(IntAsF64(z))

\* JsValue::from(*n) of an i8 .. u32
SmallIntToNumber(z) == JsNumber(F64FromInt(z))

\* js_sys::Reflect::set on the object under construction: the host either rejects
\* the assignment or the object has the property from then on
ReflectSet(obj, key, js_val) ==
    IF key \in hostRejects
    THEN Err("Failed to set object property: JsValue(TypeError)")
    ELSE IF \E i \in 1..Len(obj) : obj[i][1] = JsStr(key)
    THEN Ok([i \in 1..Len(obj) |->
               IF obj[i][1] = JsStr(key) THEN <<JsStr(key), js_val>> ELSE obj[i]])
    ELSE Ok(Append(obj, <<JsStr(key), js_val>>))

\* one turn of the map loop: convert the value, then set the property
SetProperty(acc, key, r) ==
    IF ~acc.ok THEN acc
    ELSE IF ~r.ok THEN r
    ELSE ReflectSet(acc.val, key, r.val)

RECURSIVE value_to_js(_, _), MapEntries(_, _, _, _), VecItems(_, _, _, _)

\* `for (key, val) in map`: a HashMap iterates in an order of its own, here the
\* order of its keys in ord
MapEntries(map, ord, i, acc) ==
    IF i > Len(ord) THEN acc
    ELSE IF ord[i] \notin DOMAIN map THEN MapEntries(map, ord, i + 1, acc)
    ELSE MapEntries(map, ord, i + 1,
                    SetProperty(acc, ord[i], value_to_js(map[ord[i]], ord)))

\* `for val in vec { let js_val = value_to_js(val)?; arr.push(&js_val); }`
VecItems(vec, ord, i, acc) ==
    IF i > Len(vec) THEN acc
    ELSE VecItems(vec, ord, i + 1, PushItem(acc, value_to_js(vec[i], ord)))

value_to_js(value, ord) ==
    IF value.tag \in SmallIntTags THEN Ok(SmallIntToNumber(value.v))
    ELSE IF value.tag \in WideIntTags THEN Ok(WideIntToNumber(value.v))
    ELSE IF value.tag \in {"F32", "F64"} THEN Ok(JsNumber(value.f))
    ELSE IF value.tag = "Str" THEN Ok(JsStr(value.s))
    ELSE IF value.tag = "Bool" THEN Ok(JsBool(value.b))
    ELSE IF value.tag = "Null" THEN Ok(JsNull)
    ELSE IF value.tag = "Object"
         THEN LET obj == MapEntries(value.map, ord, 1, Ok(<<>>))
              IN  IF obj.ok THEN Ok(JsObject(obj.val)) ELSE obj
    ELSE LET arr == VecItems(value.vec, ord, 1, Ok(<<>>))
         IN  IF arr.ok THEN Ok(JsArray(arr.val)) ELSE arr

----------------------------------------------------------------------------
(* The external codec and the three boundary functions *)

\* gbln::to_string and gbln::to_string_pretty: the text is the codec's affair,
\* and stands here for nothing but the Value it was made from
to_string(value) == [fmt |-> "compact", of |-> value]

to_string_pretty(value) == [fmt |-> "pretty", of |-> value]

NotCalled == [called |-> FALSE]

\* a mutant: the decoder's message is passed on bare
ParseError_Bare(e) == e

\* JsValue::from_str(&format!("Parse error: {}", e))
ParseError(e) == "Parse error: " \o e

\* parse: decoded is what gbln_parse made of input, ord the order in which the
\* maps of the decoded Value iterate.  The record is the call: its argument, each
\* external call it made and with what, whether value_to_js ran, and its result.
parse(input, decoded, ord) ==
    [op       |-> "parse",
     arg      |-> input,
     decCalls |-> 1,
     decoded  |-> decoded,
     outbound |-> decoded.ok,
     encCalls |-> 0,
     encArg   |-> NotCalled,
     ret      |-> IF ~decoded.ok THEN Err(ParseError(decoded.err))
                  ELSE value_to_js(decoded.val, ord)]

\* toString
to_string_js(value) ==
    LET gbln_value == js_to_value(value)
    IN  [op       |-> "toString",
         arg      |-> value,
         decCalls |-> 0,
         decoded  |-> NotCalled,
         outbound |-> FALSE,
         encCalls |-> IF gbln_value.ok THEN 1 ELSE 0,
         encArg   |-> IF gbln_value.ok THEN gbln_value ELSE NotCalled,
         ret      |-> IF gbln_value.ok THEN Ok(to_string(gbln_value.val))
                      ELSE gbln_value]

\* toStringPretty
to_string_pretty_js(value) ==
    LET gbln_value == js_to_value(value)
    IN  [op       |-> "toStringPretty",
         arg      |-> value,
         decCalls |-> 0,
         decoded  |-> NotCalled,
         outbound |-> FALSE,
         encCalls |-> IF gbln_value.ok THEN 1 ELSE 0,
         encArg   |-> IF gbln_value.ok THEN gbln_value ELSE NotCalled,
         ret      |-> IF gbln_value.ok THEN Ok(to_string_pretty(gbln_value.val))
                      ELSE gbln_value]

----------------------------------------------------------------------------
(* The inputs *)

\* integers 0 .. SmallMax and their negatives are all tried
SmallMax == 300

\* containers are nested to this depth
MaxDepth == 2

\* a result is fed back into the bridge until the chain of calls is this long
MaxChain == 3

\* an exponent far beyond the 64-bit integers
BigExp == 100

\* the significant bits of a finite f64
SigBits(x) ==
    IF x.mag = <<>>
    THEN IF x.frac = <<>> THEN 0
         ELSE Len(x.frac) + 1 - (CHOOSE i \in 1..Len(x.frac) :
                                   x.frac[i] = 1 /\ \A j \in 1..(i - 1) : x.frac[j] = 0)
    ELSE IF x.frac = <<>> THEN Len(x.mag) - LowZeros(x.mag)
    ELSE Len(x.mag) + Len(x.frac)

\* x is a value an f64 can hold
IsF64(x) ==
    \/ x.cls \in {"nan", "inf"}
    \/ /\ x.cls = "fin"
       /\ x.mag = <<>> \/ x.mag[Len(x.mag)] = 1
       /\ x.frac = <<>> \/ x.frac[Len(x.frac)] = 1
       /\ SigBits(x) <= 53
       /\ Len(x.mag) <= 1024

EdgeMagnitudes ==
    {Ones(15), Pow2(15), BInc(Pow2(15)), Ones(16), Pow2(16),
     Ones(31), Pow2(31), BInc(Pow2(31)), Ones(32), Pow2(32),
     Ones(53), Pow2(53), <<0>> \o BInc(Pow2(52)), <<0>> \o Ones(53),
     Pow2(63), Zeros(11) \o BInc(Pow2(52)), Zeros(11) \o Ones(53), Pow2(64),
     Zeros(12) \o BInc(Pow2(52)), Pow2(65), Pow2(BigExp)}

Fractions == {<<1>>, <<0, 1>>}

F64Inputs ==
    {x \in {Fin(neg, NatBits(k), <<>>) : neg \in BOOLEAN, k \in 0..SmallMax}
           \cup {Fin(neg, m, <<>>) : neg \in BOOLEAN, m \in EdgeMagnitudes}
           \cup {Fin(neg, NatBits(k), f) :
                   neg \in BOOLEAN, k \in {0, 3, 255}, f \in Fractions}
           \cup {NaN, Inf(FALSE), Inf(TRUE)} : IsF64(x)}

Keys == {"user", "id", "name"}

\* the orders in which a HashMap over Keys may iterate
KeyOrders ==
    {o \in Keys \X Keys \X Keys : o[1] # o[2] /\ o[1] # o[3] /\ o[2] # o[3]}

JsInt(k) == JsNumber(Fin(FALSE, NatBits(k), <<>>))

JsLeaves ==
    {JsNull, JsUndefined, JsBool(TRUE), JsInt(1), JsNumber(Fin(FALSE, Pow2(65), <<>>)),
     JsNumber(Fin(TRUE, <<>>, <<1>>)), JsStr("Alice"), JsSymbol}

RECURSIVE JsTrees(_)
\* arrays and objects over the leaves, a symbol or a non-string key among them
JsTrees(depth) ==
    IF depth = 0 THEN JsLeaves
    ELSE LET sub == JsTrees(depth - 1)
         IN  JsLeaves \cup {JsArray(<<>>), JsObject(<<>>)}
               \cup {JsArray(<<x>>) : x \in sub}
               \cup {JsArray(<<JsInt(1), x, JsInt(2)>>) : x \in sub}
               \cup {JsObject(<<<<JsStr("user"), x>>>>) : x \in sub}
               \cup {JsObject(<<<<JsStr("id"), JsInt(123)>>, <<JsStr("name"), x>>>>) :
                       x \in sub}
               \cup {JsObject(<<<<JsInt(1), x>>>>) : x \in sub}

JsInputs ==
    {JsNumber(n) : n \in F64Inputs}
      \cup {JsBool(FALSE), JsStr(""), JsFunction, JsBigInt}
      \cup JsTrees(MaxDepth)

\* the integers a kind of the given sign and width is tried with
IntPayloads(signed, w) ==
    IF signed
    THEN {IMin(w), IMax(w), Z(TRUE, <<1>>), Z(FALSE, <<>>), ZNat(100), ZNeg(100)}
           \cup (IF w = 8 THEN {ZNat(k) : k \in 0..127} \cup {ZNeg(k) : k \in 1..128}
                 ELSE {Z(neg, Pow2(w - 9)) : neg \in BOOLEAN})
           \cup (IF w = 64
                 THEN {Z(neg, m) : neg \in BOOLEAN,
                                   m \in {Ones(53), Pow2(53), BInc(Pow2(53)),
                                          <<0>> \o BInc(Pow2(52)), Ones(62)}}
                 ELSE {})
    ELSE {UMax(w), Z(FALSE, <<>>), ZNat(1), ZNat(100), Z(FALSE, Pow2(w - 1))}
           \cup (IF w = 8 THEN {ZNat(k) : k \in 0..255} ELSE {})
           \cup (IF w = 64
                 THEN {Z(FALSE, m) :
                         m \in {Ones(53), Pow2(53), BInc(Pow2(53)),
                                <<0>> \o BInc(Pow2(52)), <<0>> \o Ones(63),
                                Zeros(10) \o Ones(54), Zeros(11) \o Ones(53)}}
                 ELSE {})

IntValues ==
    UNION {{VInt("I" \o kw[1], z) : z \in IntPayloads(TRUE, kw[2])}
             \cup {VInt("U" \o kw[1], z) : z \in IntPayloads(FALSE, kw[2])} :
           kw \in {<<"8", 8>>, <<"16", 16>>, <<"32", 32>>, <<"64", 64>>}}

FloatValues ==
    {VF64(n) : n \in {NaN, Inf(FALSE), Inf(TRUE), Fin(FALSE, NatBits(3), <<0, 1>>),
                      Fin(TRUE, <<>>, <<1>>), Fin(FALSE, NatBits(3), <<>>),
                      Fin(TRUE, <<>>, <<>>), Fin(FALSE, Pow2(BigExp), <<>>)}}
      \cup {VF32(n) : n \in {NaN, Inf(TRUE), Fin(FALSE, <<1>>, <<1>>),
                             Fin(FALSE, NatBits(3), <<>>), Fin(TRUE, Pow2(24), <<>>)}}

ValueLeaves ==
    {VNull, VBool(TRUE), VInt("U32", ZNat(123)), VInt("U64", UMax(64)),
     VInt("I64", ZNeg(5)), VF64(Fin(FALSE, <<>>, <<1>>)), VStr("Alice")}

RECURSIVE ValueTrees(_)
ValueTrees(depth) ==
    IF depth = 0 THEN ValueLeaves
    ELSE LET sub == ValueTrees(depth - 1)
         IN  ValueLeaves \cup {VArray(<<>>), VObject(EmptyMap)}
               \cup {VArray(<<x>>) : x \in sub}
               \cup {VArray(<<VInt("U8", ZNat(1)), x, VInt("I8", ZNeg(2))>>) : x \in sub}
               \cup {VObject(MapInsert(EmptyMap, "user", x)) : x \in sub}
               \cup {VObject(MapInsert(MapInsert(EmptyMap, "id", VInt("U32", ZNat(123))),
                                       "name", x)) : x \in sub}

ValueInputs ==
    IntValues \cup FloatValues \cup {VBool(FALSE), VStr("")} \cup ValueTrees(MaxDepth)

\* the texts a caller hands to parse, and the messages the decoder fails with
Texts == {[text |-> "user{id<u32>(123)name<s64>(Alice)}"], [text |-> "user{"]}

DecodeErrors == {"unexpected end of input", "unknown type hint"}

----------------------------------------------------------------------------
(* The calls.  The bridge keeps nothing between calls; hist is the record of a
   chain of calls in which each call but the first was given the result of the
   one before it, and is dropped when the caller starts afresh.  hostRejects
   are the keys the host refuses to set on an object. *)

Cur == hist[Len(hist)]

Init ==
    /\ hist = <<>>
    /\ hostRejects \in {{}, {"name"}}

\* parse(input) on a text of the caller's: the decoder fails or yields some Value
ParseText(input, decoded, ord) ==
    /\ hist = <<>>
    /\ hist' = <<parse(input, decoded, ord)>>
    /\ UNCHANGED hostRejects

\* parse on the text the preceding toString returned: the decoder yields the Value
\* that text was made from
ParseEncoded(ord) ==
    /\ Len(hist) > 0 /\ Len(hist) < MaxChain
    /\ Cur.op = "toString" /\ Cur.ret.ok
    /\ hist' = Append(hist, parse(Cur.ret.val, Ok(Cur.ret.val.of), ord))
    /\ UNCHANGED hostRejects

ToStringJs(value) ==
    /\ hist = <<>>
    /\ hist' = <<to_string_js(value)>>
    /\ UNCHANGED hostRejects

ToStringPrettyJs(value) ==
    /\ hist = <<>>
    /\ hist' = <<to_string_pretty_js(value)>>
    /\ UNCHANGED hostRejects

\* toString on the value the preceding parse returned
ToStringParsed ==
    /\ Len(hist) > 0 /\ Len(hist) < MaxChain
    /\ Cur.op = "parse" /\ Cur.ret.ok
    /\ hist' = Append(hist, to_string_js(Cur.ret.val))
    /\ UNCHANGED hostRejects

\* the caller lets go of the results it holds
Forget ==
    /\ hist # <<>>
    /\ hist' = <<>>
    /\ UNCHANGED hostRejects

Next ==
    \/ \E input \in Texts, ord \in KeyOrders :
         \E decoded \in {Err(e) : e \in DecodeErrors} \cup {Ok(v) : v \in ValueInputs} :
           ParseText(input, decoded, ord)
    \/ \E ord \in KeyOrders : ParseEncoded(ord)
    \/ \E value \in JsInputs : ToStringJs(value)
    \/ \E value \in JsInputs : ToStringPrettyJs(value)
    \/ ToStringParsed
    \/ Forget

Spec == Init /\ [][Next]_vars

----------------------------------------------------------------------------
(* What the claims speak of *)

IsEncode(c) == c.op \in {"toString", "toStringPretty"}

\* a number with no fractional part, as the specification classifies it
IsIntegral(n) == n.cls = "fin" /\ n.frac = <<>>

\* the integer an integral number is
IntegerOf(n) == Z(n.neg, n.mag)

\* -2^63 <= z < 2^64
In64BitRange(z) == IF z.neg THEN BLeq(z.mag, Pow2(63)) ELSE Len(z.mag) <= 64

\* the range of the unsigned, or of the signed, kind of width w contains z
Fits(z, w) == IF z.neg THEN BLeq(z.mag, Pow2(w - 1)) ELSE BLeq(z.mag, Ones(w))

SmallestWidth(z) ==
    CHOOSE w \in {8, 16, 32, 64} :
        Fits(z, w) /\ \A u \in {8, 16, 32, 64} : u < w => ~Fits(z, u)

SmallestKind(z) ==
    (IF z.neg THEN "I" ELSE "U")
      \o (CASE SmallestWidth(z) = 8 -> "8" [] SmallestWidth(z) = 16 -> "16"
            [] SmallestWidth(z) = 32 -> "32" [] OTHER -> "64")

\* C1: an integral number n with -2^63 <= n < 2^64 becomes an integer variant,
\* Unsigned when n >= 0 and Signed when n < 0, of the smallest of the widths 8,
\* 16, 32, 64 whose range contains n; every n in 0..255 becomes U8(n).
C1_SmallestKind ==
    \A i \in 1..Len(hist) :
        LET c == hist[i]
        IN  (/\ IsEncode(c)
             /\ c.arg.kind = "number"
             /\ IsIntegral(c.arg.num)
             /\ In64BitRange(IntegerOf(c.arg.num)))
            => /\ c.encCalls = 1
               /\ c.encArg.val.tag = SmallestKind(IntegerOf(c.arg.num))
               /\ Len(c.arg.num.mag) <= 8 /\ ~IntegerOf(c.arg.num).neg
                    => c.encArg.val = VInt("U8", IntegerOf(c.arg.num))

\* toString(-32769) handed the encoder an I32, toString(255) a U8
C1_Witness ==
    /\ hist # <<>>
    /\ IsEncode(Cur)
    /\ Cur.arg = JsNumber(Fin(TRUE, BInc(Pow2(15)), <<>>))
    /\ Cur.encArg.val.tag = "I32"

\* C3: every number classified as Integer becomes an integer variant whose
\* payload is that very number, those beyond 2^64 - 1 or below -2^63 included.
C3_ExactPayload ==
    \A i \in 1..Len(hist) :
        LET c == hist[i]
        IN  (IsEncode(c) /\ c.arg.kind = "number" /\ IsIntegral(c.arg.num))
            => /\ c.encCalls = 1
               /\ c.encArg.val.tag \in IntTags
               /\ c.encArg.val.v = IntegerOf(c.arg.num)

RECURSIVE ValueTags(_)
\* the variants a Value is made of
ValueTags(value) ==
    {value.tag}
      \cup (IF value.tag = "Array"
            THEN UNION {ValueTags(value.vec[i]) : i \in 1..Len(value.vec)}
            ELSE IF value.tag = "Object"
            THEN UNION {ValueTags(value.map[k]) : k \in DOMAIN value.map}
            ELSE {})

\* C4: a number becomes F64(n), n unchanged, exactly when it is not finite or
\* has a fractional part; a finite number without one becomes an integer
\* variant; and no F32 is ever produced, at any depth.
C4_FloatClassification ==
    \A i \in 1..Len(hist) :
        LET c == hist[i]
        IN  IsEncode(c) =>
              /\ c.arg.kind = "number" =>
                   /\ c.encCalls = 1
                   /\ IF IsIntegral(c.arg.num)
                      THEN c.encArg.val.tag \in IntTags
                      ELSE c.encArg.val = VF64(c.arg.num)
              /\ c.encCalls = 1 => "F32" \notin ValueTags(c.encArg.val)

\* toString(3.25) handed the encoder F64(3.25)
C4_Witness ==
    /\ hist # <<>>
    /\ IsEncode(Cur)
    /\ Cur.arg = JsNumber(Fin(FALSE, NatBits(3), <<0, 1>>))
    /\ Cur.encArg = Ok(VF64(Fin(FALSE, NatBits(3), <<0, 1>>)))

\* mag is held exactly by an f64: at most 53 significant bits
ExactInF64(mag) == mag = <<>> \/ Len(mag) - LowZeros(mag) <= 53

\* hist[i] is a parse that decoded v and returned, hist[i + 1] the toString of
\* what it returned: Inbound(Outbound(v))
IsOutIn(i, v) ==
    /\ i + 1 <= Len(hist)
    /\ hist[i].op = "parse"
    /\ hist[i].decoded = Ok(v)
    /\ hist[i + 1].op = "toString"

\* C2: Inbound(Outbound(U64(18446744073709551615))) holds an integer other than
\* 18446744073709551615.
C2_MaxIsLost ==
    \A i \in 1..Len(hist) :
        IsOutIn(i, VInt("U64", UMax(64)))
        => /\ hist[i + 1].encCalls = 1
           /\ hist[i + 1].encArg.val.v # UMax(64)

\* What the code does there: Outbound(U64(2^64 - 1)) is the number 2^64, not the
\* original, but Inbound saturates 2^64 back to U64(2^64 - 1); a U64 fails to
\* come back exactly when it has more than 53 significant bits and is not
\* 2^64 - 1.
C2_MaxSaturatesBack ==
    \A i \in 1..Len(hist) :
        /\ IsOutIn(i, VInt("U64", UMax(64)))
           => /\ hist[i].ret = Ok(JsNumber(Fin(FALSE, Pow2(64), <<>>)))
              /\ hist[i + 1].encArg = Ok(VInt("U64", UMax(64)))
        /\ (i + 1 <= Len(hist) /\ hist[i].op = "parse" /\ hist[i].decoded.ok
              /\ hist[i].decoded.val.tag = "U64")
           => /\ hist[i + 1].encCalls = 1
              /\ hist[i + 1].encArg.val.tag \in IntTags
              /\ hist[i + 1].encArg.val.v = hist[i].decoded.val.v
                   <=> \/ ExactInF64(hist[i].decoded.val.v.mag)
                       \/ hist[i].decoded.val.v = UMax(64)

\* parse decoded U64(2^64 - 1) and toString of its result ran
C2_Witness ==
    /\ Len(hist) = 2
    /\ IsOutIn(1, VInt("U64", UMax(64)))
    /\ hist[2].encCalls = 1

\* C5: for an integer Value v of an 8-, 16- or 32-bit kind, and for a 64-bit one
\* with |v| <= 2^53, Inbound(Outbound(v)) is an integer variant holding the
\* integer v holds.
C5_RoundTrip ==
    \A i \in 1..Len(hist) :
        (/\ hist[i].op = "parse"
         /\ hist[i].decoded.ok
         /\ hist[i].decoded.val.tag \in IntTags
         /\ \/ hist[i].decoded.val.tag \in SmallIntTags
            \/ BLeq(hist[i].decoded.val.v.mag, Pow2(53)))
        => /\ hist[i].ret.ok
           /\ i + 1 <= Len(hist)
                => /\ hist[i + 1].encCalls = 1
                   /\ hist[i + 1].encArg.val.tag \in IntTags
                   /\ hist[i + 1].encArg.val.v = hist[i].decoded.val.v

\* parse decoded I64(-(2^53 - 1)) and toString of its result handed the encoder
\* that integer
C5_Witness ==
    /\ Len(hist) = 2
    /\ IsOutIn(1, VInt("I64", Z(TRUE, Ones(53))))
    /\ hist[2].encArg.val.v = Z(TRUE, Ones(53))

RECURSIVE IsPlain(_)
\* built from null, booleans, finite numbers, strings, sequences and
\* string-keyed objects
IsPlain(d) ==
    \/ d.kind \in {"null", "boolean", "string"}
    \/ d.kind = "number" /\ d.num.cls = "fin"
    \/ d.kind = "array" /\ \A i \in 1..Len(d.items) : IsPlain(d.items[i])
    \/ /\ d.kind = "object"
       /\ \A i \in 1..Len(d.entries) :
            d.entries[i][1].kind = "string" /\ IsPlain(d.entries[i][2])

RECURSIVE JsEquiv(_, _)
\* the same kind at every node, equal scalars, sequences equal element by
\* element, objects with the same keys and equivalent values under each
JsEquiv(a, b) ==
    /\ a.kind = b.kind
    /\ a.kind = "boolean" => a.b = b.b
    /\ a.kind = "string" => a.s = b.s
    /\ a.kind = "number" => FEq(a.num, b.num)
    /\ a.kind = "array" =>
         /\ Len(a.items) = Len(b.items)
         /\ \A i \in 1..Len(a.items) : JsEquiv(a.items[i], b.items[i])
    /\ a.kind = "object" =>
         /\ Len(a.entries) = Len(b.entries)
         /\ \A i \in 1..Len(a.entries) :
              \E j \in 1..Len(b.entries) :
                 /\ a.entries[i][1] = b.entries[j][1]
                 /\ JsEquiv(a.entries[i][2], b.entries[j][2])

\* C6: for every plain dynamic value d, Inbound(d) succeeds and
\* Outbound(Inbound(d)) is equivalent to d (the host rejecting no assignment).
C6_InOutEquivalent ==
    hostRejects = {} =>
      \A i \in 1..Len(hist) :
          (hist[i].op = "toString" /\ IsPlain(hist[i].arg))
          => /\ hist[i].ret.ok
             /\ i + 1 <= Len(hist)
                  => /\ hist[i + 1].ret.ok
                     /\ JsEquiv(hist[i + 1].ret.val, hist[i].arg)

RECURSIVE BadNodes(_)
\* the errors of the nodes of d that js_to_value cannot convert: a value of an
\* unsupported kind, an object entry whose key is not a string
BadNodes(d) ==
    IF d.kind \in {"null", "undefined", "boolean", "number", "string"} THEN {}
    ELSE IF d.kind = "array"
         THEN UNION {BadNodes(d.items[i]) : i \in 1..Len(d.items)}
    ELSE IF d.kind = "object"
         THEN UNION {BadNodes(d.entries[i][2])
                       \cup (IF d.entries[i][1].kind = "string" THEN {}
                             ELSE {"Object key must be string"}) :
                     i \in 1..Len(d.entries)}
    ELSE {"Unsupported JavaScript type: " \o d.dbg}

RECURSIVE HasRejectedKey(_)
\* some map of value, at any depth, has a key the host refuses to set
HasRejectedKey(value) ==
    \/ /\ value.tag = "Object"
       /\ \E k \in DOMAIN value.map : k \in hostRejects \/ HasRejectedKey(value.map[k])
    \/ /\ value.tag = "Array"
       /\ \E i \in 1..Len(value.vec) : HasRejectedKey(value.vec[i])

\* C7: with a node of an unsupported kind, or an entry with a non-string key, at
\* any depth of its argument, toString and toStringPretty return the error of
\* such a node and nothing else, and never call the encoder; with a rejected
\* assignment at any depth of the decoded Value, parse returns only an error.
C7_ErrorsTerminal ==
    \A i \in 1..Len(hist) :
        LET c == hist[i]
        IN  /\ (IsEncode(c) /\ BadNodes(c.arg) # {})
               => /\ \E e \in BadNodes(c.arg) : c.ret = Err(e)
                  /\ c.encCalls = 0
                  /\ c.encArg = NotCalled
            /\ (c.op = "parse" /\ c.decoded.ok /\ HasRejectedKey(c.decoded.val))
               => c.ret = Err("Failed to set object property: JsValue(TypeError)")

\* toStringPretty([1, {user: Symbol()}, 2]) returned the error of the symbol
C7_Witness ==
    /\ hist # <<>>
    /\ Cur.op = "toStringPretty"
    /\ Cur.arg = JsArray(<<JsInt(1),
                           JsObject(<<<<JsStr("user"), JsSymbol>>>>),
                           JsInt(2)>>)
    /\ Cur.ret = Err("Unsupported JavaScript type: JsValue(Symbol)")

\* C8: parse calls the decoder once; when the decoder fails with m it returns
\* the error "Parse error: " followed by m and value_to_js does not run; when
\* the decoder yields v it returns what value_to_js returns on v.
C8_Parse ==
    \A i \in 1..Len(hist) :
        LET c == hist[i]
        IN  c.op = "parse" =>
              /\ c.decCalls = 1
              /\ c.encCalls = 0
              /\ ~c.decoded.ok =>
                   /\ c.ret = Err("Parse error: " \o c.decoded.err)
                   /\ ~c.outbound
              /\ c.decoded.ok =>
                   /\ c.outbound
                   /\ \E ord \in KeyOrders : c.ret = value_to_js(c.decoded.val, ord)

\* parse of "user{" failed with the decoder's message behind the prefix
C8_Witness ==
    /\ hist # <<>>
    /\ Cur.op = "parse"
    /\ Cur.arg = [text |-> "user{"]
    /\ ~Cur.decoded.ok
    /\ Cur.ret = Err("Parse error: unexpected end of input")

\* {user: {id: 123, name: "Alice"}}
DocObject ==
    JsObject(<<<<JsStr("user"),
                 JsObject(<<<<JsStr("id"), JsInt(123)>>,
                            <<JsStr("name"), JsStr("Alice")>>>>)>>>>)

\* what user{id<u32>(123)name<s64>(Alice)} denotes
DocValue ==
    VObject(MapInsert(EmptyMap, "user",
        VObject(MapInsert(MapInsert(EmptyMap, "id", VInt("U32", ZNat(123))),
                          "name", VStr("Alice")))))

\* C9: toString({user: {id: 123, name: "Alice"}}) hands the encoder the Value of
\* user{id<u32>(123)name<s64>(Alice)}, id tagged U32, and returns its text.
C9_DocExample ==
    \A i \in 1..Len(hist) :
        (hist[i].op = "toString" /\ hist[i].arg = DocObject)
        => /\ hist[i].encArg = Ok(DocValue)
           /\ hist[i].ret = Ok(to_string(DocValue))

====
